---- MODULE Spec2Model ----
(***************************************************************************)
(* The static-site build of learningneverends: the PlantUML-enabled build  *)
(* script (getMarkdownFiles, parseArticle, extractOrder, the sort of       *)
(* buildArticles, the navigation pass, getRelativeArticlePath, updateIndex,*)
(* setupIndexPage, build).                                                 *)
(*                                                                         *)
(* Strings are modelled by what the code does with them:                   *)
(*  - a base filename is a name whose characters NameChars spells out, so  *)
(*    the regular expression of extractOrder is computed on characters;    *)
(*  - a folder, a slug, a path and an href are sequences of path segments  *)
(*    (what split('/') returns), ".." being the parent segment;            *)
(*  - a date is [valid, t]: t is the day number of a valid date, and an    *)
(*    invalid date is what new Date(x) gives for a string that is no date  *)
(*    (its time value is NaN);                                             *)
(*  - a title is a sequence of characters, "$" and "&", "]" and ";" among  *)
(*    them, because String.prototype.replace and the regular expression of *)
(*    updateIndex read them;                                               *)
(*  - the index document is a sequence of tokens: other text, the opener   *)
(*    "const articles = [", the terminator "];" and the array's items;     *)
(*  - the content directory is a set of files, each with its folder below  *)
(*    the root, its base name and its extension, and a set of directories. *)
(***************************************************************************)
EXTENDS Integers, Sequences, FiniteSets, TLC

VARIABLES
    disk,        \* the content directory: [exists, files, dirs]
    scan,        \* what getMarkdownFiles returns: the source files, in scan order
    now,         \* the day the build runs (new Date() in parseArticle)
    template,    \* index.html next to the script: [exists, text]
    publicIndex, \* public/index.html: [exists, text]
    pc,          \* position of build(): setup, parse, render, done, failed
    articles,    \* the articles array of buildArticles
    i,           \* loop index of the second pass of buildArticles (0-based)
    pages,       \* the article pages written under public/articles
    exitCode,    \* process exit code: 0 while running or completed, 1 after process.exit(1)
    runs,        \* number of builds started
    lastPages,   \* the article pages as the previous completed build left them
    lastIndex,   \* public/index.html as the previous completed build left it
    edited       \* the content directory was changed after the first build

vars == <<disk, scan, now, template, publicIndex, pc, articles, i, pages, exitCode,
          runs, lastPages, lastIndex, edited>>

\* What one build leaves alone of the record of earlier builds
history == <<runs, lastPages, lastIndex, edited>>

-----------------------------------------------------------------------------
(* Bounds of the model *)

MaxFiles == 3

MaxRuns == 2

-----------------------------------------------------------------------------
(* Characters of the base filenames *)

Digits == {"0", "1", "2", "3", "4", "5", "6", "7", "8", "9"}

DigitVal(c) ==
    CASE c = "0" -> 0 [] c = "1" -> 1 [] c = "2" -> 2 [] c = "3" -> 3
      [] c = "4" -> 4 [] c = "5" -> 5 [] c = "6" -> 6 [] c = "7" -> 7
      [] c = "8" -> 8 [] c = "9" -> 9

\* The characters of each base filename the model uses (name without ".md").
NameChars(name) ==
    CASE name = "1-a"       -> <<"1", "-", "a">>
      [] name = "2-b"       -> <<"2", "-", "b">>
      [] name = "n"         -> <<"n">>
      [] name = "7x"        -> <<"7", "x">>
      [] name = "999999-y"  -> <<"9", "9", "9", "9", "9", "9", "-", "y">>
      [] name = "1000000-z" -> <<"1", "0", "0", "0", "0", "0", "0", "-", "z">>
      [] name = "3-c-d"     -> <<"3", "-", "c", "-", "d">>
      [] name = ""          -> <<>>
      [] name = ".md"       -> <<".", "m", "d">>
      [] name = "a.md"      -> <<"a", ".", "m", "d">>
      [] name = ".mda"      -> <<".", "m", "d", "a">>

-----------------------------------------------------------------------------
(* extractOrder *)

NoOrder == 999999

\* Length of the longest prefix of digits of cs, from position p on: the \d+ of
\* the regular expression.
RECURSIVE DigitRun(_, _)
DigitRun(cs, p) ==
    IF p <= Len(cs) /\ cs[p] \in Digits THEN 1 + DigitRun(cs, p + 1) ELSE 0

\* parseInt(digits, 10) of the first n characters.
RECURSIVE ParseInt(_, _)
ParseInt(cs, n) ==
    IF n = 0 THEN 0 ELSE 10 * ParseInt(cs, n - 1) + DigitVal(cs[n])

\* filename.match(/^(\d+)-/): the digits must be followed by a hyphen; \d+ is
\* greedy and a digit is no hyphen, so only the longest run of digits can match.
extractOrder(name) ==
    LET cs == NameChars(name)
        n  == DigitRun(cs, 1)
    IN  IF n >= 1 /\ n + 1 <= Len(cs) /\ cs[n + 1] = "-"
        THEN ParseInt(cs, n)
        ELSE NoOrder

-----------------------------------------------------------------------------
(* parseArticle *)

DockerFolder == <<"docker-beginner">>

NoDate == [kind |-> "none", t |-> 0]
ValidDate(t) == [kind |-> "valid", t |-> t]
BadDate == [kind |-> "invalid", t |-> 0]

\* data.date || new Date().toISOString().split('T')[0]
ArticleDate(fmDate, today) ==
    IF fmDate.kind = "none" THEN [valid |-> TRUE, t |-> today]
    ELSE [valid |-> fmDate.kind = "valid", t |-> fmDate.t]

\* slug = folder ? `${folder}/${baseName}` : baseName, as its segments
Slug(folder, baseName) == folder \o <<baseName>>

\* A front-matter title: absent, a string (the empty one included) or the
\* number that YAML reads from `title: 0`
NoTitle == [kind |-> "none", text |-> <<>>]
StringTitle(text) == [kind |-> "string", text |-> text]
ZeroTitle == [kind |-> "number", text |-> <<"0">>]

\* The left operand of `data.title || ...` is taken when it is truthy
Truthy(fmTitle) ==
    \/ fmTitle.kind = "string" /\ fmTitle.text # <<>>
    \/ fmTitle.kind = "number" /\ fmTitle.text # <<"0">>

\* cs.replace(/^\d+-/, '')
StripOrderPrefix(cs) ==
    LET n == DigitRun(cs, 1)
    IN  IF n >= 1 /\ n + 1 <= Len(cs) /\ cs[n + 1] = "-"
        THEN SubSeq(cs, n + 2, Len(cs))
        ELSE cs

\* cs.replace(/-/g, ' ')
HyphensToSpaces(cs) == [p \in 1..Len(cs) |-> IF cs[p] = "-" THEN " " ELSE cs[p]]

\* data.title || baseName.replace(/^\d+-/, '').replace(/-/g, ' ')
ArticleTitle(fmTitle, baseName) ==
    IF Truthy(fmTitle) THEN fmTitle.text
    ELSE HyphensToSpaces(StripOrderPrefix(NameChars(baseName)))

\* A front-matter excerpt: absent or a string
NoExcerpt == [kind |-> "none", text |-> <<>>]
StringExcerpt(text) == [kind |-> "string", text |-> text]

\* The markdown as text: each fenced block with its fences and its language
RECURSIVE MarkdownText(_)
MarkdownText(content) ==
    IF content = <<>> THEN <<>>
    ELSE <<"fence", Head(content).lang, Head(content).text, "fence">>
             \o MarkdownText(Tail(content))

\* data.excerpt, or else the first 150 characters of the markdown without
\* the characters of the class [#*_], followed by three dots; the markdown of
\* the model is shorter than 150 characters and holds none of these characters
ArticleExcerpt(fmExcerpt, content) ==
    IF Truthy(fmExcerpt) THEN fmExcerpt.text
    ELSE MarkdownText(content) \o <<"...">>

\* A name that starts with a dot and has no other dot: the name of a file
\* that a directory entry made of an empty base and an extension stands for
DotName(ext) == CASE ext = "md" -> ".md" [] OTHER -> "."

\* path.parse(filename).name: the name without its last extension; a name
\* whose only dot is its first character has no extension and is kept whole
PathName(file) == IF file.base = "" THEN DotName(file.ext) ELSE file.base

parseArticle(file, today) ==
    [ filename |-> <<file.folder, file.base, file.ext>>,
      slug     |-> Slug(file.folder, PathName(file)),
      folder   |-> file.folder,
      baseName |-> PathName(file),
      title    |-> ArticleTitle(file.title, PathName(file)),
      date     |-> ArticleDate(file.date, today),
      excerpt  |-> ArticleExcerpt(file.excerpt, file.content),
      content  |-> file.content,
      tags     |-> <<>>,
      order    |-> extractOrder(PathName(file)) ]

-----------------------------------------------------------------------------
(* The sort of buildArticles *)

\* new Date(x) - new Date(y); a NaN result is taken as +0 by the sort
DateDiff(x, y) == IF x.valid /\ y.valid THEN x.t - y.t ELSE 0

\* A comparator without the two docker-beginner branches
CompareUngrouped(a, b) ==
    IF a.folder = b.folder
    THEN IF a.order # b.order
         THEN a.order - b.order
         ELSE DateDiff(b.date, a.date)
    ELSE DateDiff(b.date, a.date)

\* A comparator that answers the date comparison with a boolean turned into
\* 1 or -1, so that it never returns 0
CompareBoolean(a, b) ==
    IF a.folder = DockerFolder /\ b.folder # DockerFolder THEN -1
    ELSE IF a.folder # DockerFolder /\ b.folder = DockerFolder THEN 1
    ELSE IF a.folder = b.folder /\ a.order # b.order
         THEN a.order - b.order
         ELSE IF DateDiff(b.date, a.date) > 0 THEN 1 ELSE -1

\* A comparator whose date comparison has its operands swapped (oldest first)
CompareOldestFirst(a, b) ==
    IF a.folder = DockerFolder /\ b.folder # DockerFolder THEN -1
    ELSE IF a.folder # DockerFolder /\ b.folder = DockerFolder THEN 1
    ELSE IF a.folder = b.folder /\ a.order # b.order
         THEN a.order - b.order
         ELSE DateDiff(a.date, b.date)

\* The comparator handed to articles.sort
Compare(a, b) ==
    IF a.folder = DockerFolder /\ b.folder # DockerFolder THEN -1
    ELSE IF a.folder # DockerFolder /\ b.folder = DockerFolder THEN 1
    ELSE IF a.folder = b.folder
         THEN IF a.order # b.order
              THEN a.order - b.order
              ELSE DateDiff(b.date, a.date)
         ELSE DateDiff(b.date, a.date)

Reverse(s) == [p \in 1..Len(s) |-> s[Len(s) + 1 - p]]

\* Array.prototype.sort as Node runs it on a short array: the leading run is
\* found (and reversed when strictly descending), then the remaining elements
\* are inserted one by one by binary search.
RECURSIVE RunEnd(_, _, _)
RunEnd(a, idx, desc) ==
    IF idx > Len(a) THEN Len(a)
    ELSE LET order == Compare(a[idx], a[idx - 1])
         IN  IF (desc /\ order >= 0) \/ (~desc /\ order < 0)
             THEN idx - 1
             ELSE RunEnd(a, idx + 1, desc)

CountAndMakeRun(a) ==
    LET desc == Compare(a[2], a[1]) < 0
        run  == RunEnd(a, 3, desc)
    IN  [ run |-> run,
          arr |-> IF desc
                  THEN Reverse(SubSeq(a, 1, run)) \o SubSeq(a, run + 1, Len(a))
                  ELSE a ]

RECURSIVE BinarySearch(_, _, _, _)
BinarySearch(a, pivot, left, right) ==
    IF left >= right THEN left
    ELSE LET mid == left + ((right - left) \div 2)
         IN  IF Compare(pivot, a[mid]) < 0
             THEN BinarySearch(a, pivot, left, mid)
             ELSE BinarySearch(a, pivot, mid + 1, right)

InsertAt(a, start) ==
    LET pivot == a[start]
        pos   == BinarySearch(a, pivot, 1, start)
    IN  SubSeq(a, 1, pos - 1) \o <<pivot>> \o SubSeq(a, pos, start - 1)
            \o SubSeq(a, start + 1, Len(a))

RECURSIVE BinaryInsertionSort(_, _)
BinaryInsertionSort(a, start) ==
    IF start > Len(a) THEN a
    ELSE BinaryInsertionSort(InsertAt(a, start), start + 1)

ArraySort(a) ==
    IF Len(a) < 2 THEN a
    ELSE LET r == CountAndMakeRun(a)
         IN  BinaryInsertionSort(r.arr, r.run + 1)

-----------------------------------------------------------------------------
(* The index document *)

NoStamp == [valid |-> FALSE, t |-> 0]

\* A token that is no item of the array
Token(k) ==
    [ k |-> k, title |-> <<>>, slug |-> <<>>, date |-> NoStamp,
      excerpt |-> <<>>, folder |-> <<>> ]

Text == Token("text")
\* const articles = [
Open == Token("open")
\* ];
Close == Token("close")
\* One object of the JSON array: an article summary
Item(summary) ==
    [ k |-> "item", title |-> summary.title, slug |-> summary.slug,
      date |-> summary.date, excerpt |-> summary.excerpt, folder |-> summary.folder ]

\* A path of the filesystem: nothing, a file with its text, or a directory
NoFile == [exists |-> FALSE, isDir |-> FALSE, text |-> <<>>]
File(text) == [exists |-> TRUE, isDir |-> FALSE, text |-> text]
Directory == [exists |-> TRUE, isDir |-> TRUE, text |-> <<>>]

-----------------------------------------------------------------------------
(* Source files and the content directory *)

\* A markdown file with front matter that parses, no title and no body
SourceFiles(folders, names, dates) ==
    [ folder : folders, base : names, ext : {"md"}, date : dates,
      fm : {"ok"}, title : {NoTitle}, excerpt : {NoExcerpt}, content : {<<>>} ]

WithTitles(files, titles) == {[f EXCEPT !.title = t] : f \in files, t \in titles}
WithExtensions(files, exts) == {[f EXCEPT !.ext = e] : f \in files, e \in exts}
WithFrontMatter(files, fms) == {[f EXCEPT !.fm = m] : f \in files, m \in fms}
WithExcerpts(files, excerpts) == {[f EXCEPT !.excerpt = e] : f \in files, e \in excerpts}
WithContents(files, contents) == {[f EXCEPT !.content = c] : f \in files, c \in contents}

\* Two entries of a directory tree differ in folder, name or extension
SamePath(f, g) == f.folder = g.folder /\ f.base = g.base /\ f.ext = g.ext

\* The sets of at most n of the files that a directory tree can hold
RECURSIVE FileSetsUpTo(_, _)
FileSetsUpTo(files, n) ==
    IF n = 0 THEN {{}}
    ELSE LET smaller == FileSetsUpTo(files, n - 1)
         IN  smaller \cup
             { x[1] \cup {x[2]} :
                 x \in { y \in smaller \X files : \A g \in y[1] : ~SamePath(g, y[2]) } }

FileSets(files) == FileSetsUpTo(files, MaxFiles)

\* A content directory that does not exist. The field fresh tells that the
\* running build has created the directory.
NoDisk == [exists |-> FALSE, fresh |-> FALSE, files |-> {}, dirs |-> {}]

\* fs.mkdirSync(ARTICLES_DIR, { recursive: true })
CreatedDisk == [exists |-> TRUE, fresh |-> TRUE, files |-> {}, dirs |-> {}]

\* The content directories: the files, and directories that may hold no file
Disks(files, dirsets) ==
    { [exists |-> TRUE, fresh |-> FALSE, files |-> F, dirs |-> D] :
          F \in FileSets(files), D \in dirsets }

\* Every directory of the tree below the root, as its path
Directories(d) ==
    LET named == {f.folder : f \in d.files} \cup d.dirs
    IN  UNION { {SubSeq(q, 1, n) : n \in 1..Len(q)} : q \in named }

\* The file part of a directory's entry
NoEntry ==
    [ folder |-> <<>>, base |-> "", ext |-> "", date |-> NoDate,
      fm |-> "ok", title |-> NoTitle, excerpt |-> NoExcerpt, content |-> <<>> ]

\* fs.readdirSync(dir): the files and the directories directly in dir
DirItems(d, dir) ==
    { [isDir |-> FALSE, name |-> f.base, file |-> f] :
          f \in {g \in d.files : g.folder = dir} }
    \cup
    { [isDir |-> TRUE, name |-> q[Len(q)], file |-> NoEntry] :
          q \in {r \in Directories(d) : Len(r) = Len(dir) + 1 /\ SubSeq(r, 1, Len(dir)) = dir} }

\* The name of the entry alone, whatever the directory it lies in
ItemNameOnly(relativePath, item) == <<item>>

\* relativePath ? path.join(relativePath, item) : item
ItemRelativePath(relativePath, item) == Append(relativePath, item)

\* All the lists made of one list of each set, in the order of the sets
RECURSIVE Concatenations(_)
Concatenations(sets) ==
    IF sets = <<>> THEN {<<>>}
    ELSE {h \o t : h \in Head(sets), t \in Concatenations(Tail(sets))}

\* The lists scanDirectory(dir, relativePath) can push, one for each order in
\* which readdirSync may return the entries of the directories. A pushed file
\* is recorded under the relative path the scan has computed for it.
RECURSIVE scanDirectory(_, _, _)
scanDirectory(d, dir, relativePath) ==
    LET items  == DirItems(d, dir)
        n      == Cardinality(items)
        orders == {o \in [1..n -> items] : \A p, q \in 1..n : p # q => o[p] # o[q]}
        Pushed(item) ==
            IF item.isDir
            THEN scanDirectory(d, Append(dir, item.name),
                               ItemRelativePath(relativePath, item.name))
            ELSE IF item.file.ext = "md"
            THEN {<<[item.file EXCEPT !.folder = relativePath]>>}
            ELSE {<<>>}
    IN  UNION {Concatenations([p \in 1..n |-> Pushed(o[p])]) : o \in orders}

InitWith(disks, todays, templates, publics) ==
    /\ disk \in disks
    /\ scan = <<>>
    /\ now \in todays
    /\ template \in templates
    /\ publicIndex \in publics
    /\ pc = "setup"
    /\ articles = <<>>
    /\ i = 0
    /\ pages = {}
    /\ exitCode = 0
    /\ runs = 1
    /\ lastPages = {}
    /\ lastIndex = NoFile
    /\ edited = FALSE

-----------------------------------------------------------------------------
(* build() *)

\* setupIndexPage: copy the template over public/index.html when it exists.
\* existsSync is true of a directory too, and readFileSync then throws; build()
\* catches the error, logs it and calls process.exit(1).
setupIndexPage ==
    /\ pc = "setup"
    /\ IF template.exists /\ template.isDir
       THEN /\ pc' = "failed"
            /\ exitCode' = 1
            /\ UNCHANGED publicIndex
       ELSE /\ publicIndex' = IF template.exists THEN template ELSE publicIndex
            /\ pc' = "scan"
            /\ UNCHANGED exitCode
    /\ UNCHANGED <<disk, scan, now, template, articles, i, pages, history>>

\* A loader that creates the missing content directory and then throws
getMarkdownFilesThrows ==
    /\ pc = "scan"
    /\ IF disk.exists
       THEN /\ scan' \in scanDirectory(disk, <<>>, <<>>)
            /\ disk' = disk
            /\ pc' = "parse"
            /\ UNCHANGED exitCode
       ELSE /\ scan' = <<>>
            /\ disk' = CreatedDisk
            /\ pc' = "failed"
            /\ exitCode' = 1
    /\ UNCHANGED <<now, template, publicIndex, articles, i, pages, history>>

\* getMarkdownFiles: a missing content directory is created and gives no file
getMarkdownFiles ==
    /\ pc = "scan"
    /\ IF disk.exists
       THEN /\ scan' \in scanDirectory(disk, <<>>, <<>>)
            /\ disk' = disk
       ELSE /\ scan' = <<>>
            /\ disk' = CreatedDisk
    /\ pc' = "parse"
    /\ UNCHANGED <<now, template, publicIndex, articles, i, pages, exitCode, history>>

\* First pass of buildArticles: parse the next file and push its article.
\* matter(content) throws on a front-matter block that is not YAML; nothing
\* between parseArticle and build() catches it, so build() logs the error and
\* calls process.exit(1).
ParseFile ==
    /\ pc = "parse"
    /\ Len(articles) < Len(scan)
    /\ LET file == scan[Len(articles) + 1]
       IN  IF file.fm = "ok"
           THEN /\ articles' = Append(articles, parseArticle(file, now))
                /\ UNCHANGED <<pc, exitCode>>
           ELSE /\ pc' = "failed"
                /\ exitCode' = 1
                /\ UNCHANGED articles
    /\ UNCHANGED <<disk, scan, now, template, publicIndex, i, pages, history>>

\* articles.sort(...)
SortArticles ==
    /\ pc = "parse"
    /\ Len(articles) = Len(scan)
    /\ articles' = ArraySort(articles)
    /\ pc' = "render"
    /\ i' = 0
    /\ UNCHANGED <<disk, scan, now, template, publicIndex, pages, exitCode, history>>

-----------------------------------------------------------------------------
(* The markdown renderer *)

DiagramServer == "http://www.plantuml.com/plantuml/svg/"

DiagramLanguages == {"plantuml", "puml"}

\* A fenced code block of the markdown: its language tag and its text
Block(lang, text) == [lang |-> lang, text |-> text]

\* plantumlEncoder.encode(text): the deflated text in the encoder's base-64
\* alphabet, a function of the text alone
encode(text) == [deflate64 |-> text]

\* originalCode.call(this, code, language): the block as <pre><code>
DefaultCode(block) ==
    [kind |-> "code", lang |-> block.lang, text |-> block.text, url |-> <<>>]

\* <div class="plantuml-diagram"><img src="${diagramUrl}" .../></div>
DiagramImage(diagramUrl) ==
    [kind |-> "img", lang |-> "", text |-> "", url |-> diagramUrl]

\* A renderer that knows the tag 'plantuml' only
RendererPlantumlOnly(block, throws) ==
    IF block.lang = "plantuml" /\ ~throws
    THEN DiagramImage(<<DiagramServer, encode(block.text)>>)
    ELSE DefaultCode(block)

\* A renderer that emits an image without a diagram when the encoder throws
RendererEmptyImage(block, throws) ==
    IF block.lang \in DiagramLanguages
    THEN IF ~throws
         THEN DiagramImage(<<DiagramServer, encode(block.text)>>)
         ELSE DiagramImage(<<DiagramServer>>)
    ELSE DefaultCode(block)

\* renderer.code(code, language); throws tells whether the encoder throws on
\* this call, which the script does not decide
rendererCode(block, throws) ==
    IF block.lang \in DiagramLanguages
    THEN IF ~throws
         THEN DiagramImage(<<DiagramServer, encode(block.text)>>)
         ELSE DefaultCode(block)
    ELSE DefaultCode(block)

\* The blocks of a content that the renderer hands to the encoder
DiagramBlocks(content) == {p \in 1..Len(content) : content[p].lang \in DiagramLanguages}

\* marked(article.content): the fragment of each code block, in order
Marked(content, thrown) ==
    [p \in 1..Len(content) |-> rendererCode(content[p], p \in thrown)]

-----------------------------------------------------------------------------
(* Navigation and links *)

Null == <<>>    \* a null prev or next: no slug is empty

\* findIndex(a => a.slug === slug), 1-based; 0 when there is none
RECURSIVE FindIndexFrom(_, _, _)
FindIndexFrom(arts, slug, p) ==
    IF p > Len(arts) THEN 0
    ELSE IF arts[p].slug = slug THEN p
    ELSE FindIndexFrom(arts, slug, p + 1)

FindIndex(arts, slug) == FindIndexFrom(arts, slug, 1)

IsDocker(a) == a.folder = DockerFolder

\* A navigation pass that takes prev from the following and next from the
\* preceding position
NavigationSwapped(arts, idx) ==
    LET article == arts[idx] IN
    IF article.folder = DockerFolder
    THEN LET dockerArticles == SelectSeq(arts, IsDocker)
             dockerIndex    == FindIndex(dockerArticles, article.slug)
             globalIndex    == FindIndex(arts, article.slug)
         IN  [ next |-> IF dockerIndex > 1
                        THEN dockerArticles[dockerIndex - 1].slug
                        ELSE Null,
               prev |-> IF dockerIndex < Len(dockerArticles)
                        THEN dockerArticles[dockerIndex + 1].slug
                        ELSE IF globalIndex < Len(arts)
                             THEN arts[globalIndex + 1].slug
                             ELSE Null ]
    ELSE [ next |-> IF idx > 1 THEN arts[idx - 1].slug ELSE Null,
           prev |-> IF idx < Len(arts) THEN arts[idx + 1].slug ELSE Null ]

\* A navigation pass that keeps docker-beginner articles inside their folder:
\* the last one has no next
NavigationFolderOnly(arts, idx) ==
    LET article == arts[idx] IN
    IF article.folder = DockerFolder
    THEN LET dockerArticles == SelectSeq(arts, IsDocker)
             dockerIndex    == FindIndex(dockerArticles, article.slug)
         IN  [ prev |-> IF dockerIndex > 1
                        THEN dockerArticles[dockerIndex - 1].slug
                        ELSE Null,
               next |-> IF dockerIndex < Len(dockerArticles)
                        THEN dockerArticles[dockerIndex + 1].slug
                        ELSE Null ]
    ELSE [ prev |-> IF idx > 1 THEN arts[idx - 1].slug ELSE Null,
           next |-> IF idx < Len(arts) THEN arts[idx + 1].slug ELSE Null ]

\* The navigation object of the article at position idx (1-based) of the
\* sorted array: prev and next are articles, held here by their slugs.
Navigation(arts, idx) ==
    LET article == arts[idx] IN
    IF article.folder = DockerFolder
    THEN LET dockerArticles == SelectSeq(arts, IsDocker)
             dockerIndex    == FindIndex(dockerArticles, article.slug)
             globalIndex    == FindIndex(arts, article.slug)
         IN  [ prev |-> IF dockerIndex > 1
                        THEN dockerArticles[dockerIndex - 1].slug
                        ELSE Null,
               next |-> IF dockerIndex < Len(dockerArticles)
                        THEN dockerArticles[dockerIndex + 1].slug
                        ELSE IF globalIndex < Len(arts)
                             THEN arts[globalIndex + 1].slug
                             ELSE Null ]
    ELSE [ prev |-> IF idx > 1 THEN arts[idx - 1].slug ELSE Null,
           next |-> IF idx < Len(arts) THEN arts[idx + 1].slug ELSE Null ]

\* slug.includes('/') ? slug.split('/')[0] : '' (getArticleTemplate), then
\* currentFolder ? currentFolder.split('/') : [] (getRelativeArticlePath)
CurrentParts(slug) == IF Len(slug) > 1 THEN <<slug[1]>> ELSE <<>>

\* The href of a navigation link, as path segments; the last segment stands
\* for `<name>.html`.
getRelativeArticlePath(targetParts, currentParts) ==
    IF Len(targetParts) > 1 /\ Len(currentParts) > 0 /\ targetParts[1] = currentParts[1]
    THEN <<targetParts[Len(targetParts)]>>
    ELSE IF Len(targetParts) > 1 /\ Len(currentParts) = 0
    THEN targetParts
    ELSE IF Len(targetParts) = 1 /\ Len(currentParts) > 0
    THEN <<"..">> \o targetParts
    ELSE targetParts

\* getNavigationComponent: the href of a link, Null when the link is absent
NavHref(target, slug) ==
    IF target = Null THEN Null
    ELSE getRelativeArticlePath(target, CurrentParts(slug))

\* Paths are segments below the public directory.
\* outputDir = folder ? join(ARTICLES_PUBLIC_DIR, folder) : ARTICLES_PUBLIC_DIR
OutputDir(article) == <<"articles">> \o article.folder

\* outputFile = join(outputDir, `${baseName}.html`)
OutputFile(article) == OutputDir(article) \o <<article.baseName>>

\* A relativePath that is empty for every article
NoRelativePath(folder) == <<>>

\* relativePath = article.folder ? '../' : ''
RelativePath(folder) == IF folder # <<>> THEN <<"..">> ELSE <<>>

\* The href of the header link: `${relativePath}../index.html`
HeaderHref(relativePath) == relativePath \o <<"..", "index.html">>

\* The page of an article: what getArticleTemplate is given, and where the
\* page goes; thrown are the blocks of the content the encoder throws on
RenderPage(arts, idx, thrown) ==
    LET article == arts[idx]
        nav     == Navigation(arts, idx)
    IN  [ path     |-> OutputFile(article),
          dir      |-> OutputDir(article),
          slug     |-> article.slug,
          title    |-> article.title,
          date     |-> article.date,
          body     |-> Marked(article.content, thrown),
          thrown   |-> thrown,
          homeHref |-> HeaderHref(RelativePath(article.folder)),
          prev     |-> nav.prev,
          next     |-> nav.next,
          prevHref |-> NavHref(nav.prev, article.slug),
          nextHref |-> NavHref(nav.next, article.slug) ]

\* A write that leaves a file that is already there as it is
WriteFileIfAbsent(written, page) ==
    IF \E q \in written : q.path = page.path THEN written ELSE written \cup {page}

\* fs.writeFileSync(outputFile, html): the file is created or replaced
WriteFile(written, page) == {q \in written : q.path # page.path} \cup {page}

-----------------------------------------------------------------------------
(* updateIndex *)

\* A summary that keeps every field of the article
WholeArticle(article) == article

\* ({ title, slug, date, excerpt, folder }) => ({ title, slug, date, excerpt, folder })
Summary(article) ==
    [ title |-> article.title, slug |-> article.slug, date |-> article.date,
      excerpt |-> article.excerpt, folder |-> article.folder ]

\* What buildArticles returns: articles.map(...) over the sorted array
Summaries(arts) == [p \in 1..Len(arts) |-> Summary(arts[p])]

\* The summaries buildArticles returns, as the items of the JSON array
Listing(arts) ==
    LET summaries == Summaries(arts)
    IN  [p \in 1..Len(summaries) |-> Item(summaries[p])]

\* Position of the first token of kind k at or after position p; 0 when none
RECURSIVE FirstFrom(_, _, _)
FirstFrom(doc, k, p) ==
    IF p > Len(doc) THEN 0
    ELSE IF doc[p].k = k THEN p
    ELSE FirstFrom(doc, k, p + 1)

\* Characters that stand for a text String.prototype.replace inserts for a
\* pattern of the replacement string: the matched text, the text before the
\* match and the text after it
\* The grave accent, the second character of the pattern for the text before
\* the match
Backquote == "<grave accent>"

MatchedText == "<matched>"
TextBefore == "<before>"
TextAfter == "<after>"

\* The replacement string as replace() inserts it: "$$" gives "$", "$&" the
\* matched text, "$`" the text before the match and "$'" the text after it;
\* the regular expression has no group, so "$1" stays as it is
RECURSIVE Expand(_)
Expand(cs) ==
    IF Len(cs) < 2 THEN cs
    ELSE LET rest == SubSeq(cs, 3, Len(cs))
         IN  IF cs[1] = "$" /\ cs[2] = "$" THEN <<"$">> \o Expand(rest)
             ELSE IF cs[1] = "$" /\ cs[2] = "&" THEN <<MatchedText>> \o Expand(rest)
             ELSE IF cs[1] = "$" /\ cs[2] = Backquote THEN <<TextBefore>> \o Expand(rest)
             ELSE IF cs[1] = "$" /\ cs[2] = "'" THEN <<TextAfter>> \o Expand(rest)
             ELSE <<cs[1]>> \o Expand(Tail(cs))

\* The JSON of the summaries after replace() has read it as a replacement string
ExpandListing(listing) ==
    [p \in 1..Len(listing) |->
        [listing[p] EXCEPT !.title = Expand(@), !.excerpt = Expand(@)]]

\* Position of the first "];" of a title or an excerpt, 0 when there is none;
\* the matched text of an earlier replacement ends with "];"
RECURSIVE TerminatorIn(_, _)
TerminatorIn(title, p) ==
    IF p > Len(title) THEN 0
    ELSE IF title[p] = MatchedText THEN p
    ELSE IF p < Len(title) /\ title[p] = "]" /\ title[p + 1] = ";" THEN p + 1
    ELSE TerminatorIn(title, p + 1)

\* Position of the first token at or after p in which [\s\S]*?\]; can end:
\* the terminator of the statement, or an item whose title or excerpt holds "];"
RECURSIVE FirstTerminator(_, _)
FirstTerminator(doc, p) ==
    IF p > Len(doc) THEN 0
    ELSE IF doc[p].k = "close" THEN p
    ELSE IF /\ doc[p].k \in {"item", "rest"}
            /\ TerminatorIn(doc[p].title, 1) + TerminatorIn(doc[p].excerpt, 1) > 0
         THEN p
    ELSE FirstTerminator(doc, p + 1)

\* What stays of an item when the match has ended at the "];" of its title,
\* or at the "];" of its excerpt, which JSON.stringify writes after the title
RestOfItem(item) ==
    LET t == TerminatorIn(item.title, 1)
        e == TerminatorIn(item.excerpt, 1)
    IN  IF t > 0
        THEN [item EXCEPT !.k = "rest",
                          !.title = SubSeq(item.title, t + 1, Len(item.title))]
        ELSE [item EXCEPT !.k = "rest", !.title = <<>>,
                          !.excerpt = SubSeq(item.excerpt, e + 1, Len(item.excerpt))]

\* A replacement whose match runs to the last "];" of the document
ReplaceGreedy(doc, listing) ==
    LET o == FirstFrom(doc, "open", 1)
        closes == {p \in o + 1..Len(doc) : doc[p].k = "close"}
        c == IF o = 0 \/ closes = {} THEN 0
             ELSE CHOOSE p \in closes : \A q \in closes : q <= p
    IN  IF c = 0 THEN doc
        ELSE SubSeq(doc, 1, o - 1) \o <<Open>> \o ExpandListing(listing) \o <<Close>>
                 \o SubSeq(doc, c + 1, Len(doc))

\* indexContent.replace(/const articles = \[[\s\S]*?\];/, `const articles = ${json};`):
\* the leftmost opener that a "];" follows, up to the nearest "];", is
\* replaced; a document without a match is returned as it is.
ReplaceArticles(doc, listing) ==
    LET o == FirstFrom(doc, "open", 1)
        c == IF o = 0 THEN 0 ELSE FirstTerminator(doc, o + 1)
    IN  IF c = 0 THEN doc
        ELSE SubSeq(doc, 1, o - 1) \o <<Open>> \o ExpandListing(listing) \o <<Close>>
                 \o (IF doc[c].k = "close" THEN <<>> ELSE <<RestOfItem(doc[c])>>)
                 \o SubSeq(doc, c + 1, Len(doc))

-----------------------------------------------------------------------------
(* Second pass of buildArticles, updateIndex and the end of build() *)

\* A single pass that writes the page of an article as soon as it is parsed
RenderWhileParsing ==
    /\ pc = "parse"
    /\ i < Len(articles)
    /\ \E thrown \in SUBSET DiagramBlocks(articles[i + 1].content) :
           pages' = WriteFile(pages, RenderPage(articles, i + 1, thrown))
    /\ i' = i + 1
    /\ UNCHANGED <<disk, scan, now, template, publicIndex, pc, articles, exitCode, history>>

\* One iteration of the second pass: navigation, page, writeFileSync
RenderArticle ==
    /\ pc = "render"
    /\ i < Len(articles)
    /\ \E thrown \in SUBSET DiagramBlocks(articles[i + 1].content) :
           pages' = WriteFile(pages, RenderPage(articles, i + 1, thrown))
    /\ i' = i + 1
    /\ UNCHANGED <<disk, scan, now, template, publicIndex, pc, articles, exitCode, history>>

\* updateIndex(articles) and the completion of build()
updateIndex ==
    /\ pc = "render"
    /\ i = Len(articles)
    /\ publicIndex.exists
    /\ publicIndex' = File(ReplaceArticles(publicIndex.text, Listing(articles)))
    /\ pc' = "done"
    /\ UNCHANGED <<disk, scan, now, template, articles, i, pages, exitCode, history>>

\* The end of a build that reports completion although updateIndex threw
BuildCompletesAnyway ==
    /\ pc = "render"
    /\ i = Len(articles)
    /\ ~publicIndex.exists
    /\ pc' = "done"
    /\ UNCHANGED <<disk, scan, now, template, publicIndex, articles, i, pages, exitCode,
                   history>>

\* readFileSync of a missing public/index.html throws inside updateIndex;
\* build() catches it, logs and calls process.exit(1)
BuildFailed ==
    /\ pc = "render"
    /\ i = Len(articles)
    /\ ~publicIndex.exists
    /\ pc' = "failed"
    /\ exitCode' = 1
    /\ UNCHANGED <<disk, scan, now, template, publicIndex, articles, i, pages, history>>

Next ==
    \/ setupIndexPage
    \/ getMarkdownFiles
    \/ ParseFile
    \/ SortArticles
    \/ RenderArticle
    \/ updateIndex
    \/ BuildFailed

\* The build up to the sorted array
NextSort ==
    \/ setupIndexPage
    \/ getMarkdownFiles
    \/ ParseFile
    \/ SortArticles

-----------------------------------------------------------------------------
(* Builds run one after the other *)

\* The script is started again after a completed build: the outputs of the
\* build before stay on the disk, and the clock may have reached the next day
Rebuild ==
    /\ pc = "done"
    /\ runs < MaxRuns
    /\ runs' = runs + 1
    /\ lastPages' = pages
    /\ lastIndex' = publicIndex
    /\ now' \in {now, now + 1}
    /\ pc' = "setup"
    /\ scan' = <<>>
    /\ articles' = <<>>
    /\ i' = 0
    /\ exitCode' = 0
    /\ disk' = [disk EXCEPT !.fresh = FALSE]
    /\ UNCHANGED <<template, publicIndex, pages, edited>>

\* The content directories one change away: a file removed, renamed or added
Edits(d) ==
    LET names == {"1-a", "n", "2-b"}
        fresh(f, name) == [f EXCEPT !.base = name]
        free(f) == {m \in names : \A g \in d.files : ~SamePath(g, fresh(f, m))}
        room == Cardinality(d.files) < MaxFiles
    IN  {[d EXCEPT !.files = @ \ {f}] : f \in d.files}
        \cup UNION { {[d EXCEPT !.files = (@ \ {f}) \cup {fresh(f, m)}] : m \in free(f)}
                     : f \in d.files }
        \cup UNION { {[d EXCEPT !.files = @ \cup {fresh(f, m)}] : m \in free(f)}
                     : f \in {g \in d.files : room} }

\* Between two builds the articles change
EditContent ==
    /\ pc = "done"
    /\ runs < MaxRuns
    /\ ~edited
    /\ disk' \in Edits(disk)
    /\ edited' = TRUE
    /\ UNCHANGED <<scan, now, template, publicIndex, pc, articles, i, pages, exitCode,
                   runs, lastPages, lastIndex>>

NextRebuild ==
    \/ Next
    \/ Rebuild
    \/ EditContent

-----------------------------------------------------------------------------
(* Specifications *)

OldItem ==
    Item([ title |-> <<"o">>, slug |-> <<"old">>, date |-> [valid |-> TRUE, t |-> 0],
           excerpt |-> <<"...">>, folder |-> <<>> ])
MarkerDoc == <<Text, Open, OldItem, Close, Text>>
PlainDoc == <<Text>>

Folders == {DockerFolder, <<>>, <<"kubernetes">>}

\* The whole build over numbered and unnumbered files of three folders
Init ==
    InitWith(Disks(SourceFiles(Folders, {"1-a", "2-b", "n"}, {NoDate, ValidDate(1)}), {{}}),
             {2}, {NoFile, File(MarkerDoc)}, {NoFile})

Spec == Init /\ [][Next]_vars

\* The sort over files whose dates are valid, equal, different or invalid
InitSort ==
    InitWith(Disks(SourceFiles(Folders, {"1-a", "n", "7x"},
                         {ValidDate(1), ValidDate(2), BadDate}), {{}}),
             {1}, {File(MarkerDoc)}, {NoFile})

SpecSort == InitSort /\ [][NextSort]_vars

\* The sort over files whose numeric prefix reaches the order of unnumbered files
InitOrder ==
    InitWith(Disks(SourceFiles({DockerFolder, <<>>}, {"1-a", "n", "999999-y", "1000000-z"},
                         {NoDate, ValidDate(1)}), {{}}),
             {1, 2}, {File(MarkerDoc)}, {NoFile})

SpecOrder == InitOrder /\ [][NextSort]_vars

\* The build over every state of the index template and of public/index.html
InitIndex ==
    InitWith(Disks(SourceFiles({DockerFolder, <<>>}, {"1-a", "n"}, {ValidDate(1)}), {{}}),
             {1}, {NoFile, File(PlainDoc), File(MarkerDoc)},
             {NoFile, File(PlainDoc), File(MarkerDoc)})

SpecIndex == InitIndex /\ [][Next]_vars

\* The sort over files of three different dates, in every scan order
InitScan ==
    InitWith(Disks(SourceFiles(Folders, {"1-a", "n"},
                         {ValidDate(1), ValidDate(2), ValidDate(3)}), {{}}),
             {1}, {File(MarkerDoc)}, {NoFile})

SpecScan == InitScan /\ [][NextSort]_vars

\* The build over front matter that parses or not, a content directory that
\* exists or not, and every state of the index template and of public/index.html
InitErrors ==
    InitWith(Disks(WithFrontMatter(SourceFiles({DockerFolder, <<>>}, {"1-a", "n"},
                                               {ValidDate(1)}),
                                   {"ok", "malformed"}),
                   {{}}) \cup {NoDisk},
             {1}, {NoFile, Directory, File(MarkerDoc)},
             {NoFile, File(PlainDoc), File(MarkerDoc)})

SpecErrors == InitErrors /\ [][Next]_vars

\* The first pass over files whose front matter has no title, an empty one,
\* a string or the number 0
InitTitles ==
    InitWith(Disks(WithTitles(SourceFiles({<<>>}, {"1-a", "n", "3-c-d"}, {ValidDate(1)}),
                              {NoTitle, StringTitle(<<>>), StringTitle(<<"T">>), ZeroTitle}),
                   {{}}),
             {1}, {File(MarkerDoc)}, {NoFile})

SpecTitles == InitTitles /\ [][NextSort]_vars

\* The build over titles that hold "$" patterns of replace() or the text "];"
SpecialTitles ==
    { NoTitle, StringTitle(<<"$", "$">>), StringTitle(<<"$", "&">>),
      StringTitle(<<"]", ";">>) }

InitListing ==
    InitWith(Disks(WithTitles(SourceFiles({<<>>}, {"1-a", "n"}, {ValidDate(1)}),
                              SpecialTitles),
                   {{}}),
             {1}, {NoFile, File(MarkerDoc)}, {NoFile, File(MarkerDoc)})

SpecListing == InitListing /\ [][Next]_vars

\* The build over articles whose markdown holds fenced code blocks
CodeBlocks == {Block(lang, text) : lang \in {"plantuml", "puml", "js"}, text \in {"A", "B"}}

Contents == {<<>>} \cup {<<b>> : b \in CodeBlocks} \cup {<<b, c>> : b, c \in CodeBlocks}

InitRender ==
    InitWith(Disks(WithContents(SourceFiles({<<>>}, {"1-a", "n"}, {ValidDate(1)}),
                                Contents),
                   {{}}),
             {1}, {NoFile, File(MarkerDoc)}, {NoFile})

SpecRender == InitRender /\ [][Next]_vars

\* The loader over a tree with a directory inside a directory, files that are
\* no markdown, a directory without files and a directory whose name ends
\* in '.md'
InitLoader ==
    InitWith(Disks(WithExtensions(SourceFiles({<<>>, <<"kubernetes">>,
                                               <<"kubernetes", "pods">>},
                                              {"1-a", "n"}, {ValidDate(1)}),
                                  {"md", "txt"}),
                   {{}, {<<"drafts">>, <<"kubernetes", "notes.md">>}}),
             {1}, {File(MarkerDoc)}, {NoFile})

SpecLoader == InitLoader /\ [][NextSort]_vars

\* Builds run one after the other, the articles changed in between or not,
\* with an index template or with the index an earlier build has left
InitRebuild ==
    InitWith(Disks(WithTitles(SourceFiles({<<>>}, {"1-a", "n"}, {NoDate, ValidDate(1)}),
                              {NoTitle, StringTitle(<<"]", ";">>)}),
                   {{}}),
             {1}, {NoFile, File(MarkerDoc)}, {NoFile, File(MarkerDoc)})

SpecRebuild == InitRebuild /\ [][NextRebuild]_vars

\* The whole build over articles of the root, of a folder and of a folder
\* inside a folder
InitNested ==
    InitWith(Disks(SourceFiles({<<>>, <<"kubernetes">>, <<"kubernetes", "pods">>},
                               {"1-a", "n"}, {ValidDate(1)}),
                   {{}}),
             {1}, {NoFile, File(MarkerDoc)}, {NoFile})

SpecNested == InitNested /\ [][Next]_vars

\* The whole build over files named '.md', '.md.md' and 'n.md'
InitNames ==
    InitWith(Disks(SourceFiles({DockerFolder, <<>>}, {"", ".md", "n"},
                               {ValidDate(1), ValidDate(2)}),
                   {{}}),
             {1}, {NoFile, File(MarkerDoc)}, {NoFile})

SpecNames == InitNames /\ [][Next]_vars

\* The build over an index document that holds the statement twice, text
\* around both, and an item whose title holds "];"
TextOf(c) == [Text EXCEPT !.title = <<c>>]

EarlyItem ==
    Item([ title |-> <<"]", ";", "e">>, slug |-> <<"early">>,
           date |-> [valid |-> TRUE, t |-> 0], excerpt |-> <<"...">>, folder |-> <<>> ])

FrameDoc ==
    <<TextOf("h"), Open, OldItem, Close, TextOf("m"), Open, OldItem, Close, TextOf("f")>>

EarlyDoc ==
    <<TextOf("h"), Open, EarlyItem, OldItem, Close, TextOf("f")>>

FrameTitles ==
    { NoTitle, StringTitle(<<"$", Backquote>>), StringTitle(<<"$", "'">>),
      StringTitle(<<"]", ";">>) }

InitFrame ==
    InitWith(Disks(WithTitles(SourceFiles({<<>>}, {"1-a", "n"}, {ValidDate(1)}),
                              FrameTitles),
                   {{}}),
             {1}, {NoFile, File(FrameDoc)},
             {NoFile, File(PlainDoc), File(EarlyDoc)})

SpecFrame == InitFrame /\ [][Next]_vars

-----------------------------------------------------------------------------
(* The plain build script, build.js *)

\* The characters of the model's filenames in the order of their UTF-16 code
\* units, which is the order of the default sort()
CodeUnitOrder ==
    <<"-", ".", "0", "1", "2", "3", "4", "5", "6", "7", "8", "9",
      "a", "b", "c", "d", "h", "l", "m", "n", "t", "x", "y", "z">>

CodeUnit(c) == CHOOSE p \in 1..Len(CodeUnitOrder) : CodeUnitOrder[p] = c

ExtChars(ext) ==
    CASE ext = "md"  -> <<"m", "d">>
      [] ext = "txt" -> <<"t", "x", "t">>

\* The name of a file as readdirSync returns it
FileNameChars(file) == NameChars(file.base) \o <<".">> \o ExtChars(file.ext)

\* f.endsWith('.md')
EndsWithMd(cs) ==
    Len(cs) >= 3 /\ SubSeq(cs, Len(cs) - 2, Len(cs)) = <<".", "m", "d">>

\* The comparison of the default sort(): by code units, a prefix first
RECURSIVE LessThan(_, _)
LessThan(a, b) ==
    IF b = <<>> THEN FALSE
    ELSE IF a = <<>> THEN TRUE
    ELSE IF Head(a) # Head(b) THEN CodeUnit(Head(a)) < CodeUnit(Head(b))
    ELSE LessThan(Tail(a), Tail(b))

\* .sort() of the names of a directory, which are all different
RECURSIVE SortFiles(_)
SortFiles(files) ==
    IF files = {} THEN <<>>
    ELSE LET least == CHOOSE f \in files :
                          \A g \in files \ {f} :
                              LessThan(FileNameChars(f), FileNameChars(g))
         IN  <<least>> \o SortFiles(files \ {least})

\* A loader without reverse()
plainFilesAscending(d) ==
    SortFiles({f \in d.files : f.folder = <<>> /\ EndsWithMd(FileNameChars(f))})

\* readdirSync(ARTICLES_DIR).filter(f => f.endsWith('.md')).sort().reverse()
\* over a directory that holds files only
plainFiles(d) ==
    Reverse(SortFiles({f \in d.files : f.folder = <<>> /\ EndsWithMd(FileNameChars(f))}))

\* Position of the first occurrence of '.md' at or after p, 0 when none
RECURSIVE FirstMd(_, _)
FirstMd(cs, p) ==
    IF p + 2 > Len(cs) THEN 0
    ELSE IF SubSeq(cs, p, p + 2) = <<".", "m", "d">> THEN p
    ELSE FirstMd(cs, p + 1)

\* filename.replace('.md', ''): a string pattern is replaced once, at its
\* first occurrence
RemoveMd(cs) ==
    LET p == FirstMd(cs, 1)
    IN  IF p = 0 THEN cs ELSE SubSeq(cs, 1, p - 1) \o SubSeq(cs, p + 3, Len(cs))

\* data.date || new Date().toISOString().split('T')[0]: the value as it is
plainDate(fmDate, today) ==
    IF fmDate.kind = "none" THEN ValidDate(today) ELSE fmDate

\* parseArticle of build.js
plainParseArticle(file, today) ==
    [ filename |-> FileNameChars(file),
      slug     |-> RemoveMd(FileNameChars(file)),
      title    |-> IF Truthy(file.title) THEN file.title.text
                   ELSE RemoveMd(FileNameChars(file)),
      date     |-> plainDate(file.date, today),
      excerpt  |-> ArticleExcerpt(file.excerpt, file.content),
      content  |-> file.content,
      tags     |-> <<>> ]

\* The page buildArticles writes: path.join(ARTICLES_PUBLIC_DIR, `${slug}.html`)
\* and what getArticleTemplate is given; marked has its default renderer
plainPage(article) ==
    [ path  |-> <<"articles", article.slug>>,
      slug  |-> article.slug,
      title |-> article.title,
      date  |-> article.date,
      body  |-> [p \in 1..Len(article.content) |-> DefaultCode(article.content[p])] ]

\* articles.push({ title, slug, date, excerpt })
plainSummary(article) ==
    [ title |-> article.title, slug |-> article.slug, date |-> article.date,
      excerpt |-> article.excerpt ]

\* The summaries as the items of the JSON array
plainListing(summaries) ==
    [p \in 1..Len(summaries) |->
        [Token("item") EXCEPT !.title = summaries[p].title, !.slug = summaries[p].slug,
                              !.date = summaries[p].date,
                              !.excerpt = summaries[p].excerpt]]

\* getMarkdownFiles of build.js
plainGetMarkdownFiles ==
    /\ pc = "scan"
    /\ IF disk.exists
       THEN /\ scan' = plainFiles(disk)
            /\ disk' = disk
       ELSE /\ scan' = <<>>
            /\ disk' = CreatedDisk
    /\ pc' = "plain"
    /\ UNCHANGED <<now, template, publicIndex, articles, i, pages, exitCode, history>>

\* One iteration of the loop of buildArticles: parse, write the page, push the
\* summary; matter() throws on front matter that is no YAML and build()
\* catches it
plainBuildArticle ==
    /\ pc = "plain"
    /\ i < Len(scan)
    /\ LET file    == scan[i + 1]
           article == plainParseArticle(file, now)
       IN  IF file.fm = "ok"
           THEN /\ pages' = WriteFile(pages, plainPage(article))
                /\ articles' = Append(articles, plainSummary(article))
                /\ i' = i + 1
                /\ UNCHANGED <<pc, exitCode>>
           ELSE /\ pc' = "failed"
                /\ exitCode' = 1
                /\ UNCHANGED <<articles, i, pages>>
    /\ UNCHANGED <<disk, scan, now, template, publicIndex, history>>

\* updateIndex of build.js and the completion of build()
plainUpdateIndex ==
    /\ pc = "plain"
    /\ i = Len(scan)
    /\ publicIndex.exists
    /\ publicIndex' = File(ReplaceArticles(publicIndex.text, plainListing(articles)))
    /\ pc' = "done"
    /\ UNCHANGED <<disk, scan, now, template, articles, i, pages, exitCode, history>>

\* readFileSync of a missing public/index.html throws inside updateIndex
plainBuildFailed ==
    /\ pc = "plain"
    /\ i = Len(scan)
    /\ ~publicIndex.exists
    /\ pc' = "failed"
    /\ exitCode' = 1
    /\ UNCHANGED <<disk, scan, now, template, publicIndex, articles, i, pages, history>>

\* build() of build.js; its setupIndexPage is the one of the other script
NextPlain ==
    \/ setupIndexPage
    \/ plainGetMarkdownFiles
    \/ plainBuildArticle
    \/ plainUpdateIndex
    \/ plainBuildFailed

\* The plain build over top-level files, some with '.md' inside their names
InitPlain ==
    InitWith(Disks(WithFrontMatter(SourceFiles({<<>>}, {"1-a", "2-b", "n", "a.md", ".mda"},
                                               {NoDate, ValidDate(1)}),
                                   {"ok", "malformed"}),
                   {{}}) \cup {NoDisk},
             {2}, {NoFile, File(MarkerDoc)}, {NoFile})

SpecPlain == InitPlain /\ [][NextPlain]_vars

-----------------------------------------------------------------------------
(* Vocabulary of the properties *)

\* The articles array has been sorted
Sorted == pc \in {"render", "done", "failed"}

Positions == 1..Len(articles)

\* The base filename starts with digits followed by a hyphen
HasNumericPrefix(name) ==
    LET cs == NameChars(name)
    IN  \E n \in 1..(Len(cs) - 1) :
            /\ \A p \in 1..n : cs[p] \in Digits
            /\ cs[n + 1] = "-"

\* Position of the article's source file in the scan
ScanIndex(a) ==
    CHOOSE p \in 1..Len(scan) : Slug(scan[p].folder, PathName(scan[p])) = a.slug

\* The folders other than docker-beginner that the build's articles lie in
OtherFolders == {articles[p].folder : p \in Positions} \ {DockerFolder}

AllDatesValid == \A p \in Positions : articles[p].date.valid

-----------------------------------------------------------------------------
(* C1: in the sorted article list every article of folder 'docker-beginner'
   comes before every article of any other folder, the root folder included,
   whatever the set of articles and the scan order. *)
C1_DockerBeginnerFirst ==
    Sorted =>
        \A p, q \in Positions :
            (articles[p].folder = DockerFolder /\ articles[q].folder # DockerFolder)
                => p < q

\* A sorted list of three articles whose scan had a root article and another
\* folder's article ahead of a docker-beginner article
C1_Witness ==
    /\ Sorted
    /\ Len(scan) = 3
    /\ scan[1].folder = <<>>
    /\ scan[2].folder = <<"kubernetes">>
    /\ scan[3].folder = DockerFolder
    /\ articles[1].folder = DockerFolder

(* C2: in the sorted list, of two articles of the same folder with different
   order keys the one with the smaller order key comes first, also when the
   set mixes several folders other than 'docker-beginner'. *)
C2_SameFolderAscendingOrder ==
    Sorted =>
        \A p, q \in Positions :
            (/\ articles[p].folder = articles[q].folder
             /\ articles[p].order < articles[q].order)
                => p < q

(* C3: the sorted list does not depend on the scan order: when no two
   articles compare equal, every permutation of the scanned files sorts to
   the same list. *)
NoTies ==
    \A p, q \in Positions : p # q => Compare(articles[p], articles[q]) # 0

ParseAll(files) == [p \in 1..Len(files) |-> parseArticle(files[p], now)]

Rescans == {[p \in 1..Len(scan) |-> scan[f[p]]] : f \in Permutations(1..Len(scan))}

C3_ScanOrderIndependent ==
    (Sorted /\ NoTies) =>
        \A other \in Rescans : ArraySort(ParseAll(other)) = articles

(* C4: the sort is idempotent: sorting the sorted list again returns the same
   sequence, for every input list. *)
C4_SortIdempotent ==
    Sorted => ArraySort(articles) = articles

\* A sorted list of three articles that the sort has reordered
C4_Witness ==
    /\ Sorted
    /\ Len(articles) = 3
    /\ articles # ParseAll(scan)

(* C5: a file without a numeric prefix gets the maximum order key, no article
   has a larger one, and in the sorted list the file comes after every
   numbered file of its folder, whatever numeric prefix that file carries. *)
C5_UnnumberedLast ==
    Sorted =>
        \A p \in Positions :
            ~HasNumericPrefix(articles[p].baseName) =>
                /\ articles[p].order = NoOrder
                /\ \A q \in Positions :
                       (/\ articles[q].folder = articles[p].folder
                        /\ HasNumericPrefix(articles[q].baseName))
                           => (articles[q].order < articles[p].order /\ q < p)

(* C6: files of the same folder that have no numeric prefix appear in the
   sorted list in their original scan order relative to each other. *)
C6_UnnumberedKeepScanOrder ==
    Sorted =>
        \A p, q \in Positions :
            (/\ p < q
             /\ articles[p].folder = articles[q].folder
             /\ ~HasNumericPrefix(articles[p].baseName)
             /\ ~HasNumericPrefix(articles[q].baseName))
                => ScanIndex(articles[p]) < ScanIndex(articles[q])

(* C6 as amended: when every date is valid, files without a numeric prefix
   that lie in 'docker-beginner', or in the only other folder of the build,
   appear newest date first, and in their original scan order when their dates
   are equal. *)
C6_UnnumberedByDateThenScanOrder ==
    (Sorted /\ AllDatesValid) =>
        \A p, q \in Positions :
            (/\ p < q
             /\ articles[p].folder = articles[q].folder
             /\ (articles[p].folder = DockerFolder \/ Cardinality(OtherFolders) <= 1)
             /\ ~HasNumericPrefix(articles[p].baseName)
             /\ ~HasNumericPrefix(articles[q].baseName))
                => \/ articles[p].date.t > articles[q].date.t
                   \/ /\ articles[p].date.t = articles[q].date.t
                      /\ ScanIndex(articles[p]) < ScanIndex(articles[q])

\* Two unnumbered docker-beginner files of equal date, scanned after a numbered
\* file of another folder, and sorted
C6_Witness ==
    /\ Sorted
    /\ AllDatesValid
    /\ Len(articles) = 3
    /\ scan[1].folder = <<"kubernetes">>
    /\ articles[1].folder = DockerFolder
    /\ articles[2].folder = DockerFolder
    /\ ~HasNumericPrefix(articles[1].baseName)
    /\ ~HasNumericPrefix(articles[2].baseName)
    /\ articles[1].date = articles[2].date


-----------------------------------------------------------------------------
(* Vocabulary of the navigation and link properties *)

DockerArticles == SelectSeq(articles, IsDocker)

\* The sequence an article navigates in: the docker-beginner sublist for an
\* article of that folder, the whole sorted list for any other
ApplicableSequence(a) == IF a.folder = DockerFolder THEN DockerArticles ELSE articles

\* The article a page was written for
ArticleOf(page) == articles[CHOOSE p \in Positions : articles[p].slug = page.slug]

\* The output file of the article with the given slug
TargetFile(slug) == OutputFile(articles[CHOOSE p \in Positions : articles[p].slug = slug])

\* A relative href resolved against the directory of the page that holds it
RECURSIVE Resolve(_, _)
Resolve(dir, href) ==
    IF href = <<>> THEN dir
    ELSE IF Head(href) = ".."
         THEN Resolve(SubSeq(dir, 1, Len(dir) - 1), Tail(href))
         ELSE Resolve(Append(dir, Head(href)), Tail(href))

(* C7: an article that is not at a boundary of its applicable sequence (the
   docker-beginner sublist for an article of that folder, the sorted list for
   any other) has the article before it as prev and the article after it as
   next. *)
C7_NavigationInside ==
    \A page \in pages :
        LET seq == ApplicableSequence(ArticleOf(page))
        IN  \A idx \in 2..(Len(seq) - 1) :
                seq[idx].slug = page.slug =>
                    /\ page.prev = seq[idx - 1].slug
                    /\ page.next = seq[idx + 1].slug

\* The page of the middle article of three docker-beginner articles is written
C7_Witness ==
    /\ Len(DockerArticles) = 3
    /\ \E page \in pages : page.slug = DockerArticles[2].slug

(* C8: the last article of the docker-beginner sublist has as next the article
   that follows it in the whole sorted list (null when it is the last of all),
   and the first article of the sublist has a null prev. *)
C8_DockerBoundaries ==
    \A page \in pages :
        \A p \in Positions :
            (articles[p].slug = page.slug /\ Len(DockerArticles) > 0) =>
                /\ page.slug = DockerArticles[Len(DockerArticles)].slug =>
                       page.next = IF p < Len(articles)
                                   THEN articles[p + 1].slug
                                   ELSE Null
                /\ page.slug = DockerArticles[1].slug => page.prev = Null

\* The page of the last of two docker-beginner articles is written and an
\* article of another folder follows it in the sorted list
C8_Witness ==
    /\ Len(DockerArticles) = 2
    /\ Len(articles) = 3
    /\ \E page \in pages :
           /\ page.slug = DockerArticles[2].slug
           /\ page.next = articles[3].slug

(* C9: for every page and each of its navigation targets, slugs being at most
   one folder deep, the href resolved against the page's output directory is
   the target's output file, also when page and target lie in two different
   subfolders. *)
C9_LinksReachTarget ==
    \A page \in pages :
        /\ page.prev # Null => Resolve(page.dir, page.prevHref) = TargetFile(page.prev)
        /\ page.next # Null => Resolve(page.dir, page.nextHref) = TargetFile(page.next)

(* C10: updateIndex fails when the index document has no marker statement
   `const articles = [ ... ];`: the build never completes while the index is
   left without the fresh article list. *)
HasFreshList(doc, listing) ==
    \E o \in 1..Len(doc) :
        /\ o + Len(listing) + 1 <= Len(doc)
        /\ SubSeq(doc, o, o + Len(listing) + 1) = <<Open>> \o listing \o <<Close>>

C10_CompletedIndexIsFresh ==
    pc = "done" => HasFreshList(publicIndex.text, Listing(articles))

-----------------------------------------------------------------------------
(* C11: front-matter parsing is total: every scanned file, one with a
   malformed metadata block included, gets an article record and the build
   goes on; a malformed metadata block never makes the build fail. *)
C11_ParsingTotal ==
    /\ pc \in {"render", "done", "failed"} => Len(articles) = Len(scan)
    /\ pc = "failed" => \A p \in 1..Len(scan) : scan[p].fm = "ok"

-----------------------------------------------------------------------------
(* C20: an article whose front matter has no title, or an empty one, is
   titled by its base filename without the leading digits and hyphen and with
   every other hyphen turned into a space; a declared title is the article's
   title, unchanged. *)
HumanizedName(name) ==
    CASE name = "1-a"   -> <<"a">>
      [] name = "n"     -> <<"n">>
      [] name = "3-c-d" -> <<"c", " ", "d">>

\* The source file of an article
SourceOf(a) == scan[ScanIndex(a)]

C20_TitleDeclaredOrHumanized ==
    \A p \in Positions :
        LET declared == SourceOf(articles[p]).title
        IN  IF declared = NoTitle \/ declared = StringTitle(<<>>)
            THEN articles[p].title = HumanizedName(articles[p].baseName)
            ELSE articles[p].title = declared.text

-----------------------------------------------------------------------------
(* C12: after updateIndex, the array literal of the `const articles = ...;`
   statement of the written index, parsed back, is the summary list that was
   passed to updateIndex, item by item and in the same order, also when a
   title holds "$" sequences or the text "];". *)

\* The items a script parser reads in the statement: a parser takes "];" inside
\* a string as part of the string, so the array ends at the statement's own
\* terminator
ArrayLiteral(doc) ==
    LET o == FirstFrom(doc, "open", 1)
        c == FirstFrom(doc, "close", o + 1)
    IN  SubSeq(doc, o + 1, c - 1)

HasStatement(doc) ==
    /\ FirstFrom(doc, "open", 1) > 0
    /\ FirstFrom(doc, "close", FirstFrom(doc, "open", 1) + 1) > 0

C12_ListingRoundTrip ==
    (pc = "done" /\ HasStatement(publicIndex.text)) =>
        ArrayLiteral(publicIndex.text) = Listing(articles)

-----------------------------------------------------------------------------
(* C17: an error raised in setupIndexPage, buildArticles or updateIndex ends
   the build at once with exit code 1, and a failed build takes no further
   step (no retry); a build that reports completion has run the three steps
   to their end without an error and exits with code 0. *)

\* The step the build is about to take raises an error
ErrorRaised ==
    \/ pc = "setup" /\ template.exists /\ template.isDir
    \/ /\ pc = "parse"
       /\ Len(articles) < Len(scan)
       /\ scan[Len(articles) + 1].fm # "ok"
    \/ pc = "render" /\ i = Len(articles) /\ ~publicIndex.exists

\* Every step of the build has run to its end
AllStepsRan ==
    /\ ~(template.exists /\ template.isDir)
    /\ template.exists => publicIndex.exists
    /\ \A p \in 1..Len(scan) : scan[p].fm = "ok"
    /\ Len(articles) = Len(scan)
    /\ i = Len(articles)
    /\ \A p \in Positions : \E page \in pages : page.slug = articles[p].slug
    /\ publicIndex.exists /\ ~publicIndex.isDir

C17_ErrorsAbortWithExitCode1 ==
    /\ [](pc = "failed" <=> exitCode = 1)
    /\ [](pc = "done" => AllStepsRan)
    /\ [][ErrorRaised => pc' = "failed" /\ exitCode' = 1]_vars
    /\ [][pc # "failed" /\ (pc' = "failed" => ErrorRaised)]_vars

\* A build that has written a page and then failed in updateIndex
C17_Witness ==
    /\ pc = "failed"
    /\ exitCode = 1
    /\ pages # {}
    /\ ~publicIndex.exists

-----------------------------------------------------------------------------
(* C15: the renderer replaces a fenced code block exactly when its language
   tag is 'plantuml' or 'puml' (and the encoder has returned): the fragment is
   an image whose URL is the diagram server's prefix followed by the encoding
   of that block's text, so equal texts give equal URLs; a block with another
   tag is rendered by the default code renderer. *)

\* The fragments of the written pages, each with the block it was rendered from
Rendered ==
    UNION { { [block |-> ArticleOf(page).content[p], out |-> page.body[p],
               threw |-> p \in page.thrown] : p \in 1..Len(page.body) }
            : page \in pages }

C15_DiagramBlocksReplaced ==
    /\ \A page \in pages : Len(page.body) = Len(ArticleOf(page).content)
    /\ \A r \in Rendered :
           /\ r.out.kind = "img" <=> (r.block.lang \in {"plantuml", "puml"} /\ ~r.threw)
           /\ r.out.kind = "img" =>
                  r.out.url = <<"http://www.plantuml.com/plantuml/svg/", encode(r.block.text)>>
           /\ r.block.lang \notin {"plantuml", "puml"} =>
                  r.out = [kind |-> "code", lang |-> r.block.lang,
                           text |-> r.block.text, url |-> <<>>]
    /\ \A r, s \in Rendered :
           (r.out.kind = "img" /\ s.out.kind = "img" /\ r.block.text = s.block.text)
               => r.out.url = s.out.url

\* Two pages with diagrams of the same text under both tags, next to a block
\* of another language
C15_Witness ==
    /\ pc = "done"
    /\ \E r, s, t \in Rendered :
           /\ r.block.lang = "plantuml" /\ r.out.kind = "img"
           /\ s.block.lang = "puml" /\ s.out.kind = "img"
           /\ r.block.text = s.block.text
           /\ t.block.lang = "js"

(* C16: when the encoder throws on a diagram block, the renderer returns what
   the default code renderer gives for that block and the error goes no
   further: the page is written and the build goes on to its other pages. *)
C16_EncodeFailureFallsBack ==
    /\ \A r \in Rendered :
           r.threw => r.out = [kind |-> "code", lang |-> r.block.lang,
                               text |-> r.block.text, url |-> <<>>]
    /\ pc = "failed" => i = Len(articles) /\ ~publicIndex.exists
    /\ pc \in {"done", "failed"} =>
           \A p \in Positions : \E page \in pages : page.slug = articles[p].slug

\* A completed build with a page one of whose diagram blocks the encoder threw on
C16_Witness ==
    /\ pc = "done"
    /\ \E page \in pages : page.thrown # {} /\ \E q \in pages : q.thrown = {} /\ q # page

-----------------------------------------------------------------------------
(* C18: when the content directory does not exist, getMarkdownFiles creates
   it and returns the empty list; the build then completes with no article
   page written and the empty array spliced into the index. *)
C18_MissingDirectoryBuildCompletes ==
    disk.fresh =>
        /\ scan = <<>>
        /\ pages = {}
        /\ pc # "failed"
        /\ pc = "done" =>
               /\ HasStatement(publicIndex.text)
               /\ ArrayLiteral(publicIndex.text) = <<>>

(* C18 as the code has it: when the content directory does not exist,
   getMarkdownFiles creates it and returns the empty list and the build
   writes no article page; the build completes when public/index.html exists
   after setupIndexPage, with the empty array in the statement of the index
   if the index holds that statement, and it fails with exit code 1 when
   public/index.html does not exist. *)
C18_MissingDirectoryNoPages ==
    disk.fresh =>
        /\ disk.exists /\ disk.files = {}
        /\ scan = <<>>
        /\ articles = <<>>
        /\ pages = {}
        /\ pc \in {"parse", "render", "done", "failed"}
        /\ pc = "done" =>
               /\ exitCode = 0
               /\ publicIndex.exists
               /\ HasStatement(publicIndex.text) => ArrayLiteral(publicIndex.text) = <<>>
        /\ pc = "failed" => exitCode = 1 /\ ~publicIndex.exists
        /\ pc \in {"parse", "render"} => ENABLED Next

\* A build that has created the content directory and completed, the index
\* holding the empty array
C18_Witness ==
    /\ disk.fresh
    /\ pc = "done"
    /\ HasStatement(publicIndex.text)
    /\ ArrayLiteral(publicIndex.text) = <<>>

-----------------------------------------------------------------------------
(* C19: the loader returns exactly the files of the tree whose name ends in
   '.md', each once and under its path relative to the root; directories of
   any depth are walked into and never returned, and a file without the
   extension is never returned. *)
MarkdownFiles == {f \in disk.files : f.ext = "md"}

Scanned == pc \in {"parse", "render", "done"}

C19_LoaderReturnsMarkdownFiles ==
    Scanned =>
        /\ {scan[p] : p \in 1..Len(scan)} = MarkdownFiles
        /\ Len(scan) = Cardinality(MarkdownFiles)
        /\ \A p \in 1..Len(scan) : scan[p].ext = "md" /\ scan[p] \in disk.files

\* A scan of a tree that holds a markdown file two directories deep, another
\* markdown file, a file that is no markdown and directories without files
C19_Witness ==
    /\ Scanned
    /\ Len(scan) = 2
    /\ \E p \in 1..Len(scan) : Len(scan[p].folder) = 2
    /\ \E f \in disk.files : f.ext = "txt"
    /\ disk.dirs # {}

-----------------------------------------------------------------------------
(* C13: rebuilding is idempotent: a second build over unchanged inputs leaves
   every article page and public/index.html as the first build left them,
   with an index template and with only the index of an earlier build. *)
C13_RebuildIdempotent ==
    (pc = "done" /\ runs > 1 /\ ~edited) =>
        /\ pages = lastPages
        /\ publicIndex = lastIndex

(* C14: the output directory is overwritten wholesale: after any sequence of
   builds over changing articles, the article pages under public/articles are
   exactly the pages of the articles of the latest build. *)
PagePaths == {page.path : page \in pages}

ArticlePaths == {OutputFile(articles[p]) : p \in Positions}

-----------------------------------------------------------------------------
(* C24: the navigation links of the written pages agree with each other over
   the whole sorted list: the next of article a is b exactly when the prev of
   b is a, the link from the last docker-beginner article to the first
   article of another folder included, and no article has itself as prev or
   as next. *)

\* The second pass has written the page of every article
AllRendered == pc \in {"done", "failed"} /\ i = Len(articles)

C24_LinksMutuallyConsistent ==
    AllRendered =>
        \A a, b \in pages :
            /\ a.next = b.slug <=> b.prev = a.slug
            /\ a.next # a.slug
            /\ a.prev # a.slug

\* All pages are written, and the last docker-beginner article and the
\* article of another folder that follows it point at each other
C24_Witness ==
    /\ AllRendered
    /\ \E a, b \in pages :
           /\ ArticleOf(a).folder = DockerFolder
           /\ ArticleOf(b).folder # DockerFolder
           /\ a.next = b.slug
           /\ b.prev = a.slug
           /\ a.prev # Null

(* C25: the navigation of a docker-beginner article is what the rule of the
   whole sequence gives for it: prev is the article before it in the sorted
   list and next the article after it, for every set of articles. *)
GlobalRule(p) ==
    [ prev |-> IF p > 1 THEN articles[p - 1].slug ELSE Null,
      next |-> IF p < Len(articles) THEN articles[p + 1].slug ELSE Null ]

C25_DockerRuleIsGlobalRule ==
    \A page \in pages :
        \A p \in Positions :
            articles[p].slug = page.slug =>
                /\ page.prev = GlobalRule(p).prev
                /\ page.next = GlobalRule(p).next

\* The pages of a first and of a last docker-beginner article are written,
\* the last one followed by an article of another folder
C25_Witness ==
    /\ Len(DockerArticles) = 2
    /\ Len(articles) = 3
    /\ \E a, b \in pages :
           /\ a.slug = DockerArticles[1].slug
           /\ b.slug = DockerArticles[2].slug
           /\ b.next # Null

-----------------------------------------------------------------------------
(* C29: for every article at most one folder deep, the header link of its
   page (relativePath followed by '../index.html'), resolved against the
   directory the page is written to, is public/index.html. *)

\* public/index.html, as segments below the public directory
PublicIndexPath == <<"index.html">>

C29_HeaderLinkReachesIndex ==
    \A page \in pages :
        Len(ArticleOf(page).folder) <= 1 =>
            Resolve(page.dir, page.homeHref) = PublicIndexPath

\* The pages of an article of the root and of an article of a folder are written
C29_Witness ==
    \E a, b \in pages :
        /\ ArticleOf(a).folder = <<>>
        /\ Len(ArticleOf(b).folder) = 1

-----------------------------------------------------------------------------
(* C21: the listing buildArticles returns has one summary for each parsed
   article, in the sorted order the navigation uses, and a summary has the
   fields title, slug, date, excerpt and folder of its article and no other
   field. *)
SummaryFields == {"title", "slug", "date", "excerpt", "folder"}

C21_SummariesOfSortedArticles ==
    AllRendered =>
        LET summaries == Summaries(articles)
        IN  /\ Len(summaries) = Len(scan)
            /\ \A p \in 1..Len(summaries) :
                   /\ DOMAIN summaries[p] = SummaryFields
                   /\ \A field \in SummaryFields : summaries[p][field] = articles[p][field]
                   /\ \E page \in pages :
                          /\ page.slug = summaries[p].slug
                          /\ page.prev =
                                 IF p > 1 THEN summaries[p - 1].slug ELSE Null
                          /\ page.next =
                                 IF p < Len(summaries) THEN summaries[p + 1].slug ELSE Null

\* A completed build of three articles that the sort has reordered
C21_Witness ==
    /\ pc = "done"
    /\ Len(articles) = 3
    /\ articles # ParseAll(scan)
    /\ Cardinality(pages) = 3

-----------------------------------------------------------------------------
(* C28: distinct source files get distinct slugs and distinct output paths,
   so no page of a build is overwritten by another article of the same build
   and findIndex by slug finds the article that is being rendered. *)
C28_DistinctSlugsAndPaths ==
    /\ \A p, q \in Positions :
           p # q =>
               /\ articles[p].slug # articles[q].slug
               /\ OutputFile(articles[p]) # OutputFile(articles[q])
    /\ \A p \in Positions : FindIndex(articles, articles[p].slug) = p
    /\ AllRendered => Cardinality(pages) = Len(articles)

-----------------------------------------------------------------------------
(* C27: after any sequence of completed builds the array in public/index.html
   is the listing of the latest build, and nothing of the listing of an
   earlier build is left in the document, also without an index template,
   when each build splices into the index the build before has written. *)
C27_IndexHoldsLatestListingOnly ==
    pc = "done" =>
        /\ HasFreshList(publicIndex.text, Listing(articles))
        /\ \A p \in 1..Len(publicIndex.text) : publicIndex.text[p].k # "rest"
        /\ Cardinality({p \in 1..Len(publicIndex.text) : publicIndex.text[p].k = "item"})
               = Len(articles)

-----------------------------------------------------------------------------
(* C26: no article page is written before every source file has been parsed:
   a run in which the parsing of a file throws writes no article page, while
   public/index.html has already been reset from the template when there is
   one; and the array of the index is spliced only after the page of every
   article of the run has been written. *)

\* The first pass has stopped at a file whose front matter does not parse
ParseFailed ==
    /\ pc = "failed"
    /\ Len(articles) < Len(scan)
    /\ scan[Len(articles) + 1].fm # "ok"

\* The page of every article of the run is written
EveryPageWritten ==
    /\ i = Len(articles)
    /\ \A p \in Positions : \E page \in pages : page.path = OutputFile(articles[p])

C26_PagesAfterParsingIndexAfterPages ==
    /\ [](pc \in {"setup", "scan", "parse"} => pages = {})
    /\ [](ParseFailed =>
              /\ pages = {}
              /\ (template.exists => publicIndex = template))
    /\ [][pages' # pages => Len(articles) = Len(scan) /\ pc = "render"]_vars
    /\ [][(pc # "setup" /\ publicIndex' # publicIndex) => EveryPageWritten]_vars

\* The first article was parsed, the second one threw, and the index is the
\* template's copy
C26_Witness ==
    /\ ParseFailed
    /\ Len(articles) >= 1
    /\ template.exists
    /\ publicIndex = template
    /\ pages = {}

-----------------------------------------------------------------------------
(* C23: updateIndex changes only the first statement `const articles = [...];`
   of the index document: the text before the start of that statement and the
   text after its terminating "];" are in the written file as they were, for
   every list of articles; a document without the statement is written back
   as it was. *)

\* seq ends with the sequence tail
EndsWith(seq, tail) ==
    /\ Len(tail) <= Len(seq)
    /\ SubSeq(seq, Len(seq) - Len(tail) + 1, Len(seq)) = tail

FrameKept(old, new) ==
    LET o == FirstFrom(old, "open", 1)
        c == IF o = 0 THEN 0 ELSE FirstFrom(old, "close", o + 1)
    IN  IF c = 0 THEN new = old
        ELSE /\ Len(new) >= o
             /\ SubSeq(new, 1, o - 1) = SubSeq(old, 1, o - 1)
             /\ new[o] = Open
             /\ EndsWith(new, SubSeq(old, c + 1, Len(old)))
             /\ Len(new) >= (o - 1) + 2 + (Len(old) - c)

C23_OnlyStatementChanged ==
    [][(pc = "render" /\ pc' = "done") =>
           FrameKept(publicIndex.text, publicIndex'.text)]_vars

\* The index is written over a document whose first statement ended early,
\* at the "];" of a title, with a title that inserts the text before the match
C23_Witness ==
    /\ pc = "done"
    /\ ~template.exists
    /\ Head(publicIndex.text) = TextOf("h")
    /\ publicIndex.text[Len(publicIndex.text)] = TextOf("f")
    /\ \E p \in 1..Len(publicIndex.text) : publicIndex.text[p].k = "rest"
    /\ \E p \in 1..Len(publicIndex.text) :
           /\ publicIndex.text[p].k = "item"
           /\ publicIndex.text[p].title = <<TextBefore>>

-----------------------------------------------------------------------------
(* C30: in the plain script the slug of an article is its filename without
   the trailing '.md', and different top-level files get different slugs and
   different output paths, also for filenames with '.md' before the
   extension. *)

\* The filename without its last three characters, '.md'
WithoutTrailingMd(cs) == SubSeq(cs, 1, Len(cs) - 3)

C30_PlainSlugIsNameWithoutExtension ==
    pc \in {"plain", "done", "failed"} =>
        /\ \A p \in Positions :
               articles[p].slug = WithoutTrailingMd(FileNameChars(scan[p]))
        /\ \A p, q \in Positions : p # q => articles[p].slug # articles[q].slug
        /\ Cardinality(pages) = Len(articles)

-----------------------------------------------------------------------------
(* C22: the plain script and the PlantUML-enabled script implement the same
   pipeline: over a content directory that holds top-level Markdown files
   only, both write the same set of page paths and list the slugs in the same
   order in the index. *)

\* The sorted arrays the PlantUML-enabled script can build from the directory
\* the plain script has read, one for each order readdirSync can return
PlantumlArticles ==
    {ArraySort(ParseAll(s)) : s \in scanDirectory(disk, <<>>, <<>>)}

\* The page path and the slug of a top-level article of the PlantUML-enabled
\* script, with the name as its characters
PathChars(article) == <<"articles", NameChars(article.baseName)>>
SlugChars(article) == NameChars(article.slug[1])

C22_SamePagesSameOrder ==
    pc = "done" =>
        \A arts \in PlantumlArticles :
            /\ {PathChars(arts[p]) : p \in 1..Len(arts)} = {page.path : page \in pages}
            /\ [p \in 1..Len(arts) |-> SlugChars(arts[p])]
                   = [p \in Positions |-> articles[p].slug]

(* C22 as the code has it: both scripts take the same files and list one
   entry for each; when no filename starts with a dot or holds '.md' before
   its extension, both write the same set of page paths and list the same
   set of slugs; the plain script lists them in descending order of the
   filenames, whatever the order of the other script's sort is. *)

\* No filename starts with a dot or holds '.md' before its extension
OrdinaryNames ==
    \A p \in 1..Len(scan) :
        /\ Head(FileNameChars(scan[p])) # "."
        /\ FirstMd(FileNameChars(scan[p]), 1) = Len(FileNameChars(scan[p])) - 2

C22_SamePagesOwnOrder ==
    pc = "done" =>
        /\ \A arts \in PlantumlArticles :
               /\ Len(arts) = Len(articles)
               /\ OrdinaryNames =>
                      /\ {PathChars(arts[p]) : p \in 1..Len(arts)}
                             = {page.path : page \in pages}
                      /\ {SlugChars(arts[p]) : p \in 1..Len(arts)}
                             = {articles[p].slug : p \in Positions}
        /\ \A p, q \in Positions :
               p < q => LessThan(FileNameChars(scan[q]), FileNameChars(scan[p]))

\* Both scripts have the same pages of two numbered files, and list them in
\* opposite orders
C22_Witness ==
    /\ pc = "done"
    /\ OrdinaryNames
    /\ Len(articles) = 2
    /\ articles[1].slug = <<"2", "-", "b">>
    /\ articles[2].slug = <<"1", "-", "a">>
    /\ \A arts \in PlantumlArticles :
           /\ SlugChars(arts[1]) = <<"1", "-", "a">>
           /\ SlugChars(arts[2]) = <<"2", "-", "b">>
           /\ {PathChars(arts[p]) : p \in 1..Len(arts)} = {page.path : page \in pages}

====
